---- MODULE Spec2Model ----
(***************************************************************************)
(* Cart-and-order engine of the pizza ordering clients.                    *)
(*                                                                         *)
(*   frontend/src/App.js   web client: AuthProvider, CartProvider,         *)
(*                         MenuPage, AuthPage, CartPage, AdminPage         *)
(*   mobile/App.js         React-Native client: the same CartProvider      *)
(*                                                                         *)
(* A React state and the view rendered from it are taken as one: a click   *)
(* handler always sees the state of the render that is on screen.  What is *)
(* asynchronous in the source (an awaited HTTP request, the page load that *)
(* follows the post-login redirect) is a separate step here.               *)
(***************************************************************************)
EXTENDS Integers, Sequences, FiniteSets, TLC

VARIABLES
    products,       \* MenuPage: products state, as last fetched from GET /products
    cartItems,      \* CartProvider: cartItems state (ordered list of lines)
    user,           \* AuthProvider: user state
    token,          \* AuthProvider: token state (mirrors localStorage 'token')
    redirecting,    \* AuthPage: window.location.href = '/menu' assigned, page not yet reloaded
    isCheckingOut,  \* CartPage: isCheckingOut state
    phone,          \* CartPage: orderDetails.phone, the value of the phone input
    checkoutToast,  \* the toast handleCheckout has shown since it was last started
    postOrder,      \* the POST /orders request awaited by handleCheckout
    orders,         \* the persisted orders (GET /orders, scope "all")
    adminOrders,    \* AdminPage: orders state of each administrator's page
    putStatus       \* the PUT /orders/{id}/status request of each administrator

cartVars  == <<products, cartItems>>
authVars  == <<user, token, redirecting>>
orderVars == <<isCheckingOut, phone, checkoutToast, postOrder>>
adminVars == <<adminOrders, putStatus>>
vars == <<products, cartItems, user, token, redirecting, isCheckingOut, phone,
          checkoutToast, postOrder, orders, adminOrders, putStatus>>

(***************************************************************************)
(* Bounds                                                                  *)
(***************************************************************************)
\* largest quantity a line is let to reach
MaxQty == 3
\* largest quantity the quantity buttons of the cart page are let to reach
MaxPageQty == 2
\* number of orders the store is let to hold
MaxOrders == 2

(***************************************************************************)
(* Values                                                                  *)
(***************************************************************************)
\* JavaScript null
Null == "<null>"

ProductIds == {"p1", "p2"}

\* no size argument (size = null)
NoSize == [none |-> TRUE, name |-> "", price |-> 0]

\* the sizes a product offers under price revision v: p1 comes in two sizes,
\* one of them literally named "default"; p2 has no sizes.  A price is held
\* as the decimal numeral of the JSON response, counted in cents: 1695 is
\* the numeral 16.95
SizesOf(p, v) ==
    IF p = "p1"
    THEN { [none |-> FALSE, name |-> "L",       price |-> 1695 + 200 * v],
           [none |-> FALSE, name |-> "default", price |-> 1295 + 200 * v] }
    ELSE {}

\* the catalog as served by GET /products under price revision v
Catalog(v) ==
    [p \in ProductIds |->
        [id |-> p, price |-> (IF p = "p1" THEN 1095 ELSE 795) + 100 * v,
         sizes |-> SizesOf(p, v)]]

\* the price list in force when the client starts, and a revised one
PriceLists == { Catalog(0), Catalog(1) }

\* every product object a page can hold, and every size object it can select
AnyProduct == { c[p] : c \in PriceLists, p \in ProductIds }
AnySize == {NoSize} \cup UNION { pr.sizes : pr \in AnyProduct }

(***************************************************************************)
(* JavaScript numbers                                                      *)
(*                                                                         *)
(* A price, a subtotal, a tax are JavaScript numbers: binary64 values.  A  *)
(* finite number is [neg, m, e], standing for (-1)^neg * m * 2^e, with the *)
(* significand m a natural number, odd, or zero.  m is wider than the      *)
(* integers of the checker, so it is held as a sequence of digits in base  *)
(* Base, lowest digit first.  Sums and products round to 53 significant    *)
(* bits, to nearest, ties to even, as the * and + of the language do.      *)
(* Subnormals and overflow are out of reach of the amounts of a cart.      *)
(***************************************************************************)
\* a digit holds DigitBits bits
DigitBits == 15
Base == 32768

RECURSIVE Pow2(_)
Pow2(t) == IF t = 0 THEN 1 ELSE 2 * Pow2(t - 1)

RECURSIVE Pow10(_)
Pow10(k) == IF k = 0 THEN 1 ELSE 10 * Pow10(k - 1)

\* number of bits of the natural number n
RECURSIVE BitLen(_)
BitLen(n) == IF n = 0 THEN 0 ELSE 1 + BitLen(n \div 2)

\* largest t with 2^t dividing n, n > 0
RECURSIVE TwoPower(_)
TwoPower(n) == IF n % 2 = 1 THEN 0 ELSE 1 + TwoPower(n \div 2)

Zeros(n) == [i \in 1..n |-> 0]

\* without leading zero digits
RECURSIVE Trim(_)
Trim(a) ==
    IF a = <<>> THEN <<>>
    ELSE IF a[Len(a)] = 0 THEN Trim(SubSeq(a, 1, Len(a) - 1)) ELSE a

\* the digits of the natural number n
RECURSIVE Digits(_)
Digits(n) == IF n = 0 THEN <<>> ELSE <<n % Base>> \o Digits(n \div Base)

\* a + b + carry
RECURSIVE AddDigits(_, _, _)
AddDigits(a, b, carry) ==
    IF a = <<>> /\ b = <<>>
    THEN IF carry = 0 THEN <<>> ELSE <<carry>>
    ELSE LET s == (IF a = <<>> THEN 0 ELSE Head(a))
                  + (IF b = <<>> THEN 0 ELSE Head(b)) + carry
         IN  <<s % Base>> \o AddDigits(IF a = <<>> THEN <<>> ELSE Tail(a),
                                       IF b = <<>> THEN <<>> ELSE Tail(b),
                                       s \div Base)

\* a - b - borrow, for a >= b + borrow
RECURSIVE SubDigits(_, _, _)
SubDigits(a, b, borrow) ==
    IF a = <<>> THEN <<>>
    ELSE LET d == Head(a) - (IF b = <<>> THEN 0 ELSE Head(b)) - borrow
         IN  <<d % Base>> \o SubDigits(Tail(a), IF b = <<>> THEN <<>> ELSE Tail(b),
                                       IF d < 0 THEN 1 ELSE 0)

\* a < b, for a and b without leading zeros
RECURSIVE LessDigits(_, _)
LessDigits(a, b) ==
    IF Len(a) # Len(b) THEN Len(a) < Len(b)
    ELSE IF a = <<>> THEN FALSE
    ELSE IF a[Len(a)] # b[Len(b)] THEN a[Len(a)] < b[Len(b)]
    ELSE LessDigits(SubSeq(a, 1, Len(a) - 1), SubSeq(b, 1, Len(b) - 1))

\* a * k + carry, for a digit k
RECURSIVE MulSmall(_, _, _)
MulSmall(a, k, carry) ==
    IF a = <<>>
    THEN IF carry = 0 THEN <<>> ELSE <<carry>>
    ELSE LET s == Head(a) * k + carry
         IN  <<s % Base>> \o MulSmall(Tail(a), k, s \div Base)

\* a * b
RECURSIVE MulDigits(_, _)
MulDigits(a, b) ==
    IF a = <<>> THEN <<>>
    ELSE AddDigits(MulSmall(b, Head(a), 0), <<0>> \o MulDigits(Tail(a), b), 0)

\* quotient and remainder of a by d, for 0 < d <= Base
RECURSIVE DivSmall(_, _)
DivSmall(a, d) ==
    IF a = <<>> THEN [q |-> <<>>, r |-> 0]
    ELSE LET hi  == DivSmall(Tail(a), d)
             cur == hi.r * Base + Head(a)
         IN  [q |-> <<cur \div d>> \o hi.q, r |-> cur % d]

\* number of bits of a (without leading zeros)
LenBits(a) == IF a = <<>> THEN 0 ELSE DigitBits * (Len(a) - 1) + BitLen(a[Len(a)])

\* a * 2^s
ShiftLeft(a, s) == Zeros(s \div DigitBits) \o MulSmall(a, Pow2(s % DigitBits), 0)

\* a divided by 2^s, and whether a bit was lost
ShiftRight(a, s) ==
    LET k  == s \div DigitBits
        dv == DivSmall(SubSeq(a, k + 1, Len(a)), Pow2(s % DigitBits))
    IN  [q |-> Trim(dv.q), lost |-> dv.r # 0 \/ \E i \in 1..k : a[i] # 0]

\* number of significant bits of a binary64 value
SignificandBits == 53

\* m * 2^e rounded to SignificandBits bits, to nearest, ties to even
RoundBits(m, e) ==
    LET d == LenBits(m) - SignificandBits
    IN  IF d <= 0 THEN [m |-> m, e |-> e]
        ELSE LET sh   == ShiftRight(m, d - 1)
                 kept == Trim(DivSmall(sh.q, 2).q)
                 up   == sh.q[1] % 2 = 1 /\ (sh.lost \/ kept[1] % 2 = 1)
             IN  [m |-> IF up THEN AddDigits(kept, <<1>>, 0) ELSE kept, e |-> e + d]

\* the same value with an odd significand
RECURSIVE Canon(_, _)
Canon(m, e) ==
    IF m = <<>> THEN [m |-> <<>>, e |-> 0]
    ELSE IF Head(m) = 0 THEN Canon(Tail(m), e + DigitBits)
    ELSE [m |-> Trim(DivSmall(m, Pow2(TwoPower(Head(m)))).q), e |-> e + TwoPower(Head(m))]

\* the binary64 value nearest to (-1)^neg * m * 2^e
Float(neg, m, e) ==
    LET r == RoundBits(Trim(m), e)
        c == Canon(r.m, r.e)
    IN  [neg |-> neg /\ c.m # <<>>, m |-> c.m, e |-> c.e]

\* an integer as a number
FromInt(n) == Float(n < 0, Digits(IF n < 0 THEN 0 - n ELSE n), 0)

\* guard digits carried through the division of a decimal numeral
GuardDigits == 6

\* the number a decimal numeral denotes: n / 10^k, n >= 0, correctly rounded
\* (JSON.parse of a response body, a numeric literal of the source)
Decimal(n, k) ==
    LET dv == DivSmall(Zeros(GuardDigits) \o Digits(n), Pow10(k))
    IN  Float(FALSE, MulSmall(dv.q, 2, IF dv.r # 0 THEN 1 ELSE 0),
              0 - GuardDigits * DigitBits - 1)

\* x * y
Times(x, y) == Float(x.neg # y.neg, MulDigits(x.m, y.m), x.e + y.e)

\* x + y
Plus(x, y) ==
    IF x.m = <<>> THEN y
    ELSE IF y.m = <<>> THEN x
    ELSE LET e  == IF x.e < y.e THEN x.e ELSE y.e
             xm == Trim(ShiftLeft(x.m, x.e - e))
             ym == Trim(ShiftLeft(y.m, y.e - e))
         IN  IF x.neg = y.neg THEN Float(x.neg, AddDigits(xm, ym, 0), e)
             ELSE IF LessDigits(xm, ym) THEN Float(y.neg, SubDigits(ym, xm, 0), e)
             ELSE Float(x.neg, SubDigits(xm, ym, 0), e)

\* the number a price of c cents arrives as
Price(c) == Decimal(c, 2)

(***************************************************************************)
(* CartProvider                                                            *)
(***************************************************************************)
\* const price = size ? size.price : product.price
PriceOf(product, size) == IF size.none THEN product.price ELSE size.price

\* size?.name || 'default'
KeyName(size) == IF size.none \/ size.name = "" THEN "default" ELSE size.name

\* const itemKey = `${product.id}-${size?.name || 'default'}`
ItemKey(product, size) == product.id \o "-" \o KeyName(size)

\* size: size?.name || null
SizeField(size) == IF size.none \/ size.name = "" THEN Null ELSE size.name

\* prev.find(item => item.key === itemKey)
HasKey(cart, key) == \E i \in DOMAIN cart : cart[i].key = key

\* the line addToCart appends for a new key (name and image_url, display
\* metadata copied from the product, are left out)
NewLine(product, size, quantity) ==
    [key        |-> ItemKey(product, size),
     product_id |-> product.id,
     price      |-> PriceOf(product, size),
     quantity   |-> quantity,
     size       |-> SizeField(size)]

\* the updater addToCart passes to setCartItems
AddItemAppendAlways(cart, product, size, quantity) ==
    Append(cart, NewLine(product, size, quantity))
AddItemReprice(cart, product, size, quantity) ==
    IF HasKey(cart, ItemKey(product, size))
    THEN [i \in DOMAIN cart |->
            IF cart[i].key = ItemKey(product, size)
            THEN [cart[i] EXCEPT !.quantity = @ + quantity,
                                 !.price = PriceOf(product, size)]
            ELSE cart[i]]
    ELSE Append(cart, NewLine(product, size, quantity))
AddItemMovesLine(cart, product, size, quantity) ==
    IF HasKey(cart, ItemKey(product, size))
    THEN LET old == CHOOSE i \in DOMAIN cart : cart[i].key = ItemKey(product, size)
         IN  Append(SelectSeq(cart, LAMBDA item : item.key # ItemKey(product, size)),
                    [cart[old] EXCEPT !.quantity = @ + quantity])
    ELSE Append(cart, NewLine(product, size, quantity))
AddItem(cart, product, size, quantity) ==
    IF HasKey(cart, ItemKey(product, size))
    THEN [i \in DOMAIN cart |->
            IF cart[i].key = ItemKey(product, size)
            THEN [cart[i] EXCEPT !.quantity = @ + quantity]
            ELSE cart[i]]
    ELSE Append(cart, NewLine(product, size, quantity))

\* prev.filter(item => item.key !== key)
RemoveItemFirstLine(cart, key) ==
    IF HasKey(cart, key) THEN Tail(cart) ELSE cart
RECURSIVE RemoveItem(_, _)
RemoveItem(cart, key) ==
    IF cart = <<>> THEN <<>>
    ELSE IF Head(cart).key = key
         THEN RemoveItem(Tail(cart), key)
         ELSE <<Head(cart)>> \o RemoveItem(Tail(cart), key)

\* updateQuantity: quantity <= 0 removes, otherwise the quantity is set
SetQuantityKeepsLine(cart, key, quantity) ==
    [i \in DOMAIN cart |->
        IF cart[i].key = key THEN [cart[i] EXCEPT !.quantity = quantity]
        ELSE cart[i]]
SetQuantityAdds(cart, key, quantity) ==
    IF quantity <= 0
    THEN RemoveItem(cart, key)
    ELSE [i \in DOMAIN cart |->
            IF cart[i].key = key THEN [cart[i] EXCEPT !.quantity = @ + quantity]
            ELSE cart[i]]
SetQuantity(cart, key, quantity) ==
    IF quantity <= 0
    THEN RemoveItem(cart, key)
    ELSE [i \in DOMAIN cart |->
            IF cart[i].key = key THEN [cart[i] EXCEPT !.quantity = quantity]
            ELSE cart[i]]

\* cartTotal: cartItems.reduce((sum, item) => sum + (item.price * item.quantity), 0)
RECURSIVE ReduceTotal(_, _)
ReduceTotal(sum, cart) ==
    IF cart = <<>> THEN sum
    ELSE ReduceTotal(Plus(sum, Times(Price(Head(cart).price), FromInt(Head(cart).quantity))),
                     Tail(cart))
CartTotal(cart) == ReduceTotal(FromInt(0), cart)

\* cartCount: cartItems.reduce((sum, item) => sum + item.quantity, 0)
CartCountLines(cart) == Len(cart)
RECURSIVE CartCount(_)
CartCount(cart) ==
    IF cart = <<>> THEN 0 ELSE Head(cart).quantity + CartCount(Tail(cart))

\* quantities stay within the bound of the model
QtyInRange(cart) == \A i \in DOMAIN cart : cart[i].quantity \in (0 - 1)..MaxQty

Keys(cart) == { cart[i].key : i \in DOMAIN cart }

otherVars == <<user, token, redirecting, isCheckingOut, phone, checkoutToast,
               postOrder, orders, adminOrders, putStatus>>

AddToCart(product, size, quantity) ==
    /\ QtyInRange(AddItem(cartItems, product, size, quantity))
    /\ cartItems' = AddItem(cartItems, product, size, quantity)
    /\ UNCHANGED <<products, otherVars>>

UpdateQuantity(key, quantity) ==
    /\ cartItems' = SetQuantity(cartItems, key, quantity)
    /\ UNCHANGED <<products, otherVars>>

RemoveFromCart(key) ==
    /\ cartItems' = RemoveItem(cartItems, key)
    /\ UNCHANGED <<products, otherVars>>

ClearCart ==
    /\ cartItems' = <<>>
    /\ UNCHANGED <<products, otherVars>>

\* MenuPage fetchData: the catalog is read again; its prices may have changed
FetchProducts ==
    /\ \E c \in PriceLists : c # products /\ products' = c
    /\ UNCHANGED <<cartItems, otherVars>>

(***************************************************************************)
(* AuthProvider, AuthPage                                                  *)
(***************************************************************************)
NoRequest == [stage |-> "none", items |-> <<>>, phone |-> ""]

\* AuthPage.handleSubmit, the request answered: login(user, token), then
\* window.location.href = '/menu' starts a navigation that reloads the page
Login(u) ==
    /\ ~redirecting
    /\ user' = u
    /\ token' = "token"
    /\ redirecting' = TRUE
    /\ UNCHANGED <<cartVars, orderVars, orders, adminVars>>

\* AuthProvider.logout (Header button, shown to a logged-in user)
Logout ==
    /\ user # Null
    /\ user' = Null
    /\ token' = Null
    /\ UNCHANGED <<redirecting, cartVars, orderVars, orders, adminVars>>

(***************************************************************************)
(* The store behind POST /orders.  The backend is not among the sources:   *)
(* an order is recorded with status "pending" (the model keeps its status  *)
(* only; its lines are those of the request).                              *)
(***************************************************************************)
RecordOrder(items) == Append(orders, [status |-> "pending"])

ServerCreateOrder ==
    /\ postOrder.stage = "sent"
    /\ Len(orders) < MaxOrders
    /\ orders' = RecordOrder(postOrder.items)
    /\ postOrder' = [postOrder EXCEPT !.stage = "recorded"]
    /\ UNCHANGED <<cartVars, authVars, isCheckingOut, phone, checkoutToast, adminVars>>

(***************************************************************************)
(* CartPage                                                                *)
(***************************************************************************)
\* orderData.items: cartItems.map(item => ({product_id, quantity, size, price}))
OrderItemsFromCatalog(cart) ==
    [i \in DOMAIN cart |->
        [product_id |-> cart[i].product_id,
         quantity   |-> cart[i].quantity,
         size       |-> cart[i].size,
         price      |-> IF cart[i].size = Null
                        THEN products[cart[i].product_id].price
                        ELSE (CHOOSE z \in products[cart[i].product_id].sizes :
                                 z.name = cart[i].size).price]]
OrderItems(cart) ==
    [i \in DOMAIN cart |->
        [product_id |-> cart[i].product_id,
         quantity   |-> cart[i].quantity,
         size       |-> cart[i].size,
         price      |-> cart[i].price]]

\* const taxAmount = cartTotal * 0.08
TaxAmount(cart) == Times(CartTotal(cart), Decimal(8, 2))

\* const totalWithTax = cartTotal + taxAmount
TotalWithTax(cart) == Plus(CartTotal(cart), TaxAmount(cart))

\* the checkout form is on screen: cartItems.length === 0 renders the empty
\* view instead (line 1229), the form is rendered for a user only (line 1358)
FormShownAlways == user # Null
FormShown == cartItems # <<>> /\ user # Null

\* the submit button of the form: disabled={isCheckingOut} (line 1399)
SubmitDisabledNever == FALSE
SubmitDisabled == isCheckingOut

\* the phone input is `required` (line 1366): while its value is empty the
\* browser raises no submit event on the form
PhoneAcceptedAlways(p) == TRUE
PhoneAccepted(p) == p # ""

\* what the user can make of the phone input
PhoneInputs == {"", "555"}

\* onChange of the phone input
SetPhone(p) ==
    /\ FormShown
    /\ p # phone
    /\ phone' = p
    /\ UNCHANGED <<cartVars, authVars, isCheckingOut, checkoutToast, postOrder,
                   orders, adminVars>>

\* if (!user)
NoUserNever == FALSE
NoUser == user = Null

\* handleCheckout up to its await, as a function of the state it is called
\* in: without a user it shows a toast and returns
HandleCheckoutBody ==
    IF NoUser
    THEN /\ checkoutToast' = "login"
         /\ UNCHANGED <<cartVars, authVars, isCheckingOut, phone, postOrder,
                        orders, adminVars>>
    ELSE /\ isCheckingOut' = TRUE
         /\ checkoutToast' = "none"
         /\ postOrder' = [stage |-> "sent", items |-> OrderItems(cartItems),
                          phone |-> phone]
         /\ UNCHANGED <<cartVars, authVars, phone, orders, adminVars>>

\* the form is submitted: handleCheckout runs when the form is on screen,
\* its submit button is enabled and its required input is filled
HandleCheckout ==
    /\ FormShown
    /\ ~SubmitDisabled
    /\ PhoneAccepted(phone)
    /\ HandleCheckoutBody

\* handleCheckout called while no request of the page is on its way,
\* whatever the page shows
HandleCheckoutCalled ==
    /\ postOrder.stage = "none"
    /\ HandleCheckoutBody

\* what handleCheckout does to the cart when the awaited request throws
CartAfterFailureCleared(cart) == <<>>
CartAfterFailure(cart) == cart

\* handleCheckout after its await, the request acknowledged: clearCart(),
\* setOrderDetails with an empty phone, then finally setIsCheckingOut(false)
CheckoutSuccess ==
    /\ isCheckingOut
    /\ postOrder.stage = "recorded"
    /\ cartItems' = <<>>
    /\ checkoutToast' = "placed"
    /\ phone' = ""
    /\ isCheckingOut' = FALSE
    /\ postOrder' = NoRequest
    /\ UNCHANGED <<products, authVars, orders, adminVars>>

\* handleCheckout after its await, the request thrown (transport error,
\* server error or timeout, whether or not the store recorded the order):
\* catch, then finally setIsCheckingOut(false)
CheckoutFailKeepsFlag ==
    /\ isCheckingOut
    /\ postOrder.stage \in {"sent", "recorded"}
    /\ checkoutToast' = "failed"
    /\ postOrder' = NoRequest
    /\ UNCHANGED <<products, cartItems, authVars, isCheckingOut, phone, orders, adminVars>>
CheckoutFail ==
    /\ isCheckingOut
    /\ postOrder.stage \in {"sent", "recorded"}
    /\ cartItems' = CartAfterFailure(cartItems)
    /\ checkoutToast' = "failed"
    /\ isCheckingOut' = FALSE
    /\ postOrder' = NoRequest
    /\ UNCHANGED <<products, authVars, phone, orders, adminVars>>

\* the page load that ends the post-login redirect: every React state is
\* back to its initial value, the token is read from localStorage again, and
\* a request still on its way may or may not have reached the store
PageLoad ==
    /\ redirecting
    /\ redirecting' = FALSE
    /\ user' = Null
    /\ cartItems' = <<>>
    /\ isCheckingOut' = FALSE
    /\ phone' = ""
    /\ checkoutToast' = "none"
    /\ postOrder' = NoRequest
    /\ \/ orders' = orders
       \/ /\ postOrder.stage = "sent"
          /\ Len(orders) < MaxOrders
          /\ orders' = RecordOrder(postOrder.items)
    /\ UNCHANGED <<products, token, adminVars>>

\* the size the product dialog has selected: the product's size "L" when it
\* has sizes, none otherwise
SelectedSize(product) ==
    IF product.sizes = {} THEN NoSize
    ELSE CHOOSE z \in product.sizes : z.name = "L"

\* the Add to Cart button of the product dialog: addToCart(selectedProduct,
\* selectedSize), pressed as long as the line stays within the bound of the
\* page
HandleAddToCart(product) ==
    /\ \A i \in DOMAIN cartItems :
          cartItems[i].key = ItemKey(product, SelectedSize(product)) =>
              cartItems[i].quantity < MaxPageQty
    /\ AddToCart(product, SelectedSize(product), 1)

\* the plus and minus buttons of a line: updateQuantity(item.key, item.quantity +- 1)
PressPlus(i) ==
    /\ cartItems[i].quantity < MaxPageQty
    /\ UpdateQuantity(cartItems[i].key, cartItems[i].quantity + 1)
PressMinus(i) == UpdateQuantity(cartItems[i].key, cartItems[i].quantity - 1)

(***************************************************************************)
(* AdminPage, one page per administrator                                   *)
(***************************************************************************)
Admins == {"a1", "a2"}

\* the sessions that can call the status logic: the administrators' and that
\* of a customer, whose user has no is_admin
Callers == Admins \cup {"c1"}

\* user?.is_admin
IsAdmin(a) == a \in Admins

Statuses == {"pending", "confirmed", "preparing", "ready", "delivered", "cancelled"}

NoPut == [stage |-> "none", order |-> 0, status |-> Null]

\* GET /orders as the store answers it
StatusList == [i \in DOMAIN orders |-> orders[i].status]

\* fetchOrders: setOrders(response.data); not run while the page's own
\* status request is awaited (it runs on mount and after a successful update)
FetchOrders(a) ==
    /\ putStatus[a].stage = "none"
    /\ adminOrders[a] # StatusList
    /\ adminOrders' = [adminOrders EXCEPT ![a] = StatusList]
    /\ UNCHANGED <<cartVars, authVars, orderVars, orders, putStatus>>

\* the values the status Select of a displayed order offers: all six
\* SelectItems, whatever the order's status
SelectItems(current) == Statuses

\* updateOrderStatus(orderId, status) up to its await: the Select of order i
\* changed to s; the request carries the order id and s only
UpdateOrderStatusBody(a, i, s) ==
    /\ putStatus[a].stage = "none"
    /\ putStatus' = [putStatus EXCEPT ![a] = [stage |-> "sent", order |-> i, status |-> s]]
    /\ UNCHANGED <<cartVars, authVars, orderVars, orders, adminOrders>>

\* the Select of order i of an administrator's page changed to s: the page
\* renders the orders for a user with is_admin only (line 1618)
UpdateOrderStatus(a, i, s) ==
    /\ IsAdmin(a)
    /\ i \in DOMAIN adminOrders[a]
    /\ s \in SelectItems(adminOrders[a][i])
    /\ s # adminOrders[a][i]
    /\ UpdateOrderStatusBody(a, i, s)

\* updateOrderStatus called with the id of any stored order and any status,
\* whatever the page shows and whoever the user is
UpdateOrderStatusCalled(a, i, s) ==
    /\ i \in DOMAIN orders
    /\ UpdateOrderStatusBody(a, i, s)

\* the store behind PUT /orders/{id}/status.  The backend is not among the
\* sources; section 9 of the specification reports that the source sets any
\* status with no validation, and so does this
StatusAfterPut(current, requested) == requested

ServerUpdateStatus(a) ==
    /\ putStatus[a].stage = "sent"
    /\ IsAdmin(a)
    /\ orders' = [orders EXCEPT ![putStatus[a].order].status =
                      StatusAfterPut(@, putStatus[a].status)]
    /\ putStatus' = [putStatus EXCEPT ![a].stage = "applied"]
    /\ UNCHANGED <<cartVars, authVars, orderVars, adminOrders>>

\* the store refuses the request of a caller without admin identity
\* (sections 6 and 7 of the specification: AuthorizationError, no mutation)
ServerRefuseStatus(a) ==
    /\ putStatus[a].stage = "sent"
    /\ ~IsAdmin(a)
    /\ putStatus' = [putStatus EXCEPT ![a].stage = "refused"]
    /\ UNCHANGED <<cartVars, authVars, orderVars, orders, adminOrders>>

\* updateOrderStatus after its await, the request answered: toast.success,
\* then fetchOrders()
UpdateStatusSuccess(a) ==
    /\ putStatus[a].stage = "applied"
    /\ putStatus' = [putStatus EXCEPT ![a] = NoPut]
    /\ adminOrders' = [adminOrders EXCEPT ![a] = StatusList]
    /\ UNCHANGED <<cartVars, authVars, orderVars, orders>>

\* updateOrderStatus after its await, the request thrown: toast.error
UpdateStatusFail(a) ==
    /\ putStatus[a].stage \in {"sent", "applied", "refused"}
    /\ putStatus' = [putStatus EXCEPT ![a] = NoPut]
    /\ UNCHANGED <<cartVars, authVars, orderVars, orders, adminOrders>>

\* another customer's order reaches the store
OtherCustomerOrder ==
    /\ orders = <<>>
    /\ orders' = RecordOrder(<<"line">>)
    /\ UNCHANGED <<cartVars, authVars, orderVars, adminVars>>

(***************************************************************************)
(* The mobile client (mobile/App.js): its CartProvider, AuthProvider and   *)
(* screens.  One installation of the app; the state variables hold the     *)
(* mobile providers' state in the specifications of the mobile client.     *)
(***************************************************************************)
\* const itemKey = `${product.id}-${size?.name || 'default'}`
MobileItemKey(product, size) ==
    product.id \o "-" \o (IF size.none \/ size.name = "" THEN "default" ELSE size.name)

\* the updater the mobile addToCart passes to setCartItems
MobileAddItemMovesLine(cart, product, size, quantity) ==
    LET key == MobileItemKey(product, size)
        old == SelectSeq(cart, LAMBDA item : item.key = key)
    IN  IF old = <<>>
        THEN Append(cart, [key |-> key, product_id |-> product.id,
                           price |-> IF size.none THEN product.price ELSE size.price,
                           quantity |-> quantity,
                           size |-> IF size.none \/ size.name = "" THEN Null ELSE size.name])
        ELSE Append(SelectSeq(cart, LAMBDA item : item.key # key),
                    [old[1] EXCEPT !.quantity = @ + quantity])
MobileAddItem(cart, product, size, quantity) ==
    LET key == MobileItemKey(product, size)
    IN  IF \E i \in DOMAIN cart : cart[i].key = key
        THEN [i \in DOMAIN cart |->
                IF cart[i].key = key
                THEN [cart[i] EXCEPT !.quantity = cart[i].quantity + quantity]
                ELSE cart[i]]
        ELSE cart \o << [key        |-> key,
                         product_id |-> product.id,
                         price      |-> IF size.none THEN product.price ELSE size.price,
                         quantity   |-> quantity,
                         size       |-> IF size.none \/ size.name = "" THEN Null
                                        ELSE size.name] >>

\* the mobile removeFromCart: prev.filter(item => item.key !== key)
MobileRemoveItem(cart, key) == SelectSeq(cart, LAMBDA item : item.key # key)

\* the mobile updateQuantity
MobileSetQuantity(cart, key, quantity) ==
    IF quantity <= 0
    THEN MobileRemoveItem(cart, key)
    ELSE [i \in DOMAIN cart |->
            IF cart[i].key = key THEN [cart[i] EXCEPT !.quantity = quantity]
            ELSE cart[i]]

\* the mobile cartTotal and cartCount
RECURSIVE MobileReduceTotal(_, _)
MobileReduceTotal(total, cart) ==
    IF cart = <<>> THEN total
    ELSE MobileReduceTotal(
             Plus(total, Times(Price(cart[1].price), FromInt(cart[1].quantity))),
             SubSeq(cart, 2, Len(cart)))
MobileCartTotal(cart) == MobileReduceTotal(FromInt(0), cart)

RECURSIVE MobileReduceCount(_, _)
MobileReduceCount(total, cart) ==
    IF cart = <<>> THEN total
    ELSE MobileReduceCount(total + cart[1].quantity, SubSeq(cart, 2, Len(cart)))
MobileCartCount(cart) == MobileReduceCount(0, cart)

mobileOtherVars == <<products, redirecting, orderVars, orders, adminVars>>

\* the four operations of the mobile CartProvider
MobileAddToCart(product, size, quantity) ==
    /\ QtyInRange(MobileAddItem(cartItems, product, size, quantity))
    /\ cartItems' = MobileAddItem(cartItems, product, size, quantity)
    /\ UNCHANGED <<user, token, mobileOtherVars>>

MobileUpdateQuantity(key, quantity) ==
    /\ cartItems' = MobileSetQuantity(cartItems, key, quantity)
    /\ UNCHANGED <<user, token, mobileOtherVars>>

MobileRemoveFromCart(key) ==
    /\ cartItems' = MobileRemoveItem(cartItems, key)
    /\ UNCHANGED <<user, token, mobileOtherVars>>

MobileClearCart ==
    /\ cartItems' = <<>>
    /\ UNCHANGED <<user, token, mobileOtherVars>>

\* MenuScreen's add button: addToCart(item), no size, the default quantity
MobileMenuAdd(product) ==
    /\ \A i \in DOMAIN cartItems :
          cartItems[i].key = MobileItemKey(product, NoSize) =>
              cartItems[i].quantity < MaxPageQty
    /\ cartItems' = MobileAddItem(cartItems, product, NoSize, 1)
    /\ UNCHANGED <<user, token, mobileOtherVars>>

\* ProductDetailScreen.handleAddToCart: addToCart(product, selectedSize), the
\* selected size being one of the product's sizes, or null when it has none
MobileHandleAddToCart(product, size) ==
    /\ IF product.sizes = {} THEN size = NoSize ELSE size \in product.sizes
    /\ \A i \in DOMAIN cartItems :
          cartItems[i].key = MobileItemKey(product, size) =>
              cartItems[i].quantity < MaxPageQty
    /\ cartItems' = MobileAddItem(cartItems, product, size, 1)
    /\ UNCHANGED <<user, token, mobileOtherVars>>

\* CartScreen's quantity buttons: updateQuantity(item.key, item.quantity +- 1)
MobilePressPlus(i) ==
    /\ cartItems[i].quantity < MaxPageQty
    /\ cartItems' = MobileSetQuantity(cartItems, cartItems[i].key,
                                      cartItems[i].quantity + 1)
    /\ UNCHANGED <<user, token, mobileOtherVars>>
MobilePressMinus(i) ==
    /\ cartItems' = MobileSetQuantity(cartItems, cartItems[i].key,
                                      cartItems[i].quantity - 1)
    /\ UNCHANGED <<user, token, mobileOtherVars>>

\* AuthScreen.handleSubmit, the request answered: login(data.user, data.token)
\* stores both and sets both; the screen is opened for a visitor only
MobileLogin(u) ==
    /\ user = Null
    /\ user' = u
    /\ token' = "token"
    /\ UNCHANGED <<cartItems, mobileOtherVars>>

\* the mobile AuthProvider.logout (ProfileScreen, shown to a logged-in user)
MobileLogout ==
    /\ user # Null
    /\ user' = Null
    /\ token' = Null
    /\ UNCHANGED <<cartItems, mobileOtherVars>>

\* the app started again: the cart is useState([]) anew, loadStoredAuth sets
\* the token and the user that login stored and logout has not removed
MobileRestart ==
    /\ cartItems' = <<>>
    /\ UNCHANGED <<user, token, mobileOtherVars>>

\* CartScreen's checkout button, shown under a non-empty cart:
\* user ? navigation.navigate('Checkout') : navigation.navigate('Auth').
\* The Stack.Navigator registers the screens Tabs, ProductDetail and Auth:
\* the navigation to 'Checkout' is handled by no navigator, and the one to
\* 'Auth' opens the login screen.  Neither sends a request, neither changes
\* the providers' state
MobilePressCheckout ==
    /\ cartItems # <<>>
    /\ UNCHANGED vars

(***************************************************************************)
(* Specifications                                                          *)
(***************************************************************************)
AllKeys == { ItemKey(pr, s) : pr \in AnyProduct, s \in AnySize }

Init ==
    /\ products = Catalog(0)
    /\ cartItems = <<>>
    /\ user = Null
    /\ token = Null
    /\ redirecting = FALSE
    /\ isCheckingOut = FALSE
    /\ phone = ""
    /\ checkoutToast = "none"
    /\ postOrder = NoRequest
    /\ orders = <<>>
    /\ adminOrders = [a \in Callers |-> <<>>]
    /\ putStatus = [a \in Callers |-> NoPut]

\* the cart engine: its four operations called with any argument of the
\* bounded sets, on the product objects of the price list last fetched
NextCart ==
    \/ \E p \in ProductIds, q \in (0 - 1)..2 :
          \E s \in {NoSize} \cup products[p].sizes : AddToCart(products[p], s, q)
    \/ \E k \in AllKeys, q \in (0 - 1)..2 : UpdateQuantity(k, q)
    \/ \E k \in AllKeys : RemoveFromCart(k)
    \/ ClearCart
    \/ FetchProducts

SpecCart == Init /\ [][NextCart]_vars

\* one session of the web client, its cart driven by the pages' controls
\* (addToCart with the default quantity, the plus, minus and remove buttons of
\* a line, Clear All), and the store
Next ==
    \/ \E p \in ProductIds : HandleAddToCart(products[p])
    \/ \E i \in DOMAIN cartItems : PressPlus(i)
    \/ \E i \in DOMAIN cartItems : PressMinus(i)
    \/ \E i \in DOMAIN cartItems : RemoveFromCart(cartItems[i].key)
    \/ cartItems # <<>> /\ ClearCart
    \/ FetchProducts
    \/ \E u \in {"alice"} : Login(u)
    \/ Logout
    \/ PageLoad
    \/ \E p \in PhoneInputs : SetPhone(p)
    \/ HandleCheckout
    \/ ServerCreateOrder
    \/ CheckoutSuccess
    \/ CheckoutFail

Spec == Init /\ [][Next]_vars

\* handleCheckout itself, called in whatever state the session is in (with or
\* without a user, a cart, a phone), and the store
NextCheckout ==
    \/ \E p \in ProductIds : HandleAddToCart(products[p])
    \/ cartItems # <<>> /\ ClearCart
    \/ \E u \in {"alice"} : Login(u)
    \/ Logout
    \/ PageLoad
    \/ \E p \in PhoneInputs : SetPhone(p)
    \/ HandleCheckoutCalled
    \/ ServerCreateOrder
    \/ CheckoutSuccess
    \/ CheckoutFail

SpecCheckout == Init /\ [][NextCheckout]_vars

\* two administrators' pages and the store, holding one order
NextAdmin ==
    \/ OtherCustomerOrder
    \/ \E a \in Admins : FetchOrders(a)
    \/ \E a \in Admins, s \in Statuses : \E i \in DOMAIN adminOrders[a] :
          UpdateOrderStatus(a, i, s)
    \/ \E a \in Admins : ServerUpdateStatus(a)
    \/ \E a \in Admins : UpdateStatusSuccess(a)
    \/ \E a \in Admins : UpdateStatusFail(a)

SpecAdmin == Init /\ [][NextAdmin]_vars

\* updateOrderStatus itself, called with any order and status by an
\* administrator's session and by the customer's, and the store, holding one
\* order
DirectCallers == {"a1", "c1"}

NextStatusCall ==
    \/ OtherCustomerOrder
    \/ \E a \in DirectCallers, s \in Statuses : \E i \in DOMAIN orders :
          UpdateOrderStatusCalled(a, i, s)
    \/ \E a \in DirectCallers : ServerUpdateStatus(a)
    \/ \E a \in DirectCallers : ServerRefuseStatus(a)
    \/ \E a \in DirectCallers : UpdateStatusSuccess(a)
    \/ \E a \in DirectCallers : UpdateStatusFail(a)

SpecStatusCall == Init /\ [][NextStatusCall]_vars

\* the mobile cart engine: its four operations called with any argument of
\* the bounded sets, on the product objects of either price list
NextMobileCart ==
    \/ \E pr \in AnyProduct, q \in (0 - 1)..2 :
          \E s \in {NoSize} \cup pr.sizes : MobileAddToCart(pr, s, q)
    \/ \E k \in AllKeys, q \in (0 - 1)..2 : MobileUpdateQuantity(k, q)
    \/ \E k \in AllKeys : MobileRemoveFromCart(k)
    \/ MobileClearCart

SpecMobileCart == Init /\ [][NextMobileCart]_vars

\* one installation of the mobile client, used by a customer who goes on
\* using it: every control that stays available is pressed again (strong
\* fairness of the logins, of the additions to the cart and of the checkout
\* button)
NextMobile ==
    \/ \E p \in ProductIds : MobileMenuAdd(products[p])
    \/ \E p \in ProductIds, s \in AnySize : MobileHandleAddToCart(products[p], s)
    \/ \E i \in DOMAIN cartItems : MobilePressPlus(i)
    \/ \E i \in DOMAIN cartItems : MobilePressMinus(i)
    \/ \E u \in {"alice"} : MobileLogin(u)
    \/ MobileLogout
    \/ MobileRestart
    \/ MobilePressCheckout

SpecMobile ==
    /\ Init
    /\ [][NextMobile]_vars
    /\ WF_vars(NextMobile)
    /\ SF_vars(\E u \in {"alice"} : MobileLogin(u))
    /\ SF_vars(\E p \in ProductIds : MobileMenuAdd(products[p]))
    /\ SF_vars(MobilePressCheckout)

\* handleCheckout and the store as in SpecCheckout, every request sent being
\* answered or failing in the end: the awaited promise settles, and the
\* runtime then runs what follows the await (weak fairness of the two ends
\* of handleCheckout)
SpecCheckoutSettles ==
    /\ Init
    /\ [][NextCheckout]_vars
    /\ WF_vars(CheckoutSuccess \/ CheckoutFail)

(***************************************************************************)
(* Claims                                                                  *)
(***************************************************************************)
\* the step that ends an awaited checkout: handleCheckout resumes after its
\* await (the page load of the redirect, which drops the handler, is not one)
CheckoutEnds == isCheckingOut /\ ~isCheckingOut' /\ redirecting' = redirecting

\* C1: checkout clears the cart only on the acknowledgment of the order
\* request.  Submitting leaves the cart as it is; the step in which the
\* request fails or times out leaves the cart with the same lines (keys,
\* quantities, prices, order); and when the end of a checkout changes the cart
\* at all, the store had recorded the order and the success toast is shown.
C1_CartClearedOnlyOnSuccess ==
    [][ /\ (~isCheckingOut /\ isCheckingOut') => cartItems' = cartItems
        /\ (CheckoutEnds /\ checkoutToast' = "failed") => cartItems' = cartItems
        /\ (CheckoutEnds /\ cartItems' # cartItems) =>
              /\ postOrder.stage = "recorded"
              /\ checkoutToast' = "placed"
              /\ cartItems' = <<>> ]_vars

\* C1 witness: a checkout has failed and the cart still holds the lines
C1_Witness ==
    /\ checkoutToast = "failed"
    /\ ~isCheckingOut
    /\ Len(cartItems) = 2

\* C2: no order request is ever issued for an empty cart: a request on its
\* way always carries at least one line.
C2_NoRequestForEmptyCart ==
    postOrder.stage # "none" => postOrder.items # <<>>

\* C2 witness: a logged-in user whose cart was emptied after an order of
\* theirs was placed from the form; checkout cannot be started
C2_Witness ==
    /\ user # Null
    /\ cartItems = <<>>
    /\ checkoutToast = "placed"
    /\ ~ENABLED HandleCheckout

\* the line of a cart with a given key, and how many lines carry it
LineOf(cart, key) == cart[CHOOSE i \in DOMAIN cart : cart[i].key = key]
LinesWith(cart, key) == Cardinality({ i \in DOMAIN cart : cart[i].key = key })

\* the same product (same id) as the catalog lists it under price list c, and
\* the same size (same name, or none) as that product offers it there
SameProduct(c, product) == c[product.id]
SameSize(c, product, size) ==
    IF size.none THEN NoSize
    ELSE CHOOSE z \in c[product.id].sizes : z.name = size.name

\* what one operation on a key other than `key` can make of a cart: nothing,
\* an addToCart, an updateQuantity or a removeFromCart on another key
BetweenAdds(cart, key) ==
    {cart}
    \cup { AddItem(cart, products[p], z, 1) :
              p \in { x \in ProductIds : \A y \in {NoSize} \cup products[x].sizes :
                         ItemKey(products[x], y) # key },
              z \in {NoSize} }
    \cup { RemoveItem(cart, k) : k \in Keys(cart) \ {key} }
    \cup { SetQuantity(cart, k, 2) : k \in Keys(cart) \ {key} }

\* C3: from any reachable cart without a line for (P,S), addItem(P,S,n1) and
\* later addItem(P,S,n2), n1, n2 >= 1, with an operation on another key in
\* between and the second add made at any price list, leave exactly one line
\* for the key of (P,S), of quantity n1+n2 and of the price of the first add.
C3_AddTwiceMerges ==
    \A p \in ProductIds :
      \A s \in {NoSize} \cup products[p].sizes :
        LET key == ItemKey(products[p], s) IN
        ~HasKey(cartItems, key) =>
          \A n1 \in 1..2, n2 \in 1..2, c \in PriceLists :
            \A mid \in BetweenAdds(AddItem(cartItems, products[p], s, n1), key) :
              LET after == AddItem(mid, SameProduct(c, products[p]),
                                   SameSize(c, products[p], s), n2)
              IN /\ LinesWith(after, key) = 1
                 /\ LineOf(after, key).quantity = n1 + n2
                 /\ LineOf(after, key).price = PriceOf(products[p], s)
                 /\ Len(after) = Len(mid)

\* C3 witness: two adds have been merged (no single call gives a quantity
\* above 2) into a line whose price is no longer the one the catalog lists
C3_Witness ==
    \E i \in DOMAIN cartItems :
        /\ cartItems[i].quantity = 3
        /\ cartItems[i].size = "L"
        /\ cartItems[i].price # SameSize(products, products["p1"],
                                         [none |-> FALSE, name |-> "L", price |-> 0]).price
        /\ Len(cartItems) > 1

\* C4: the cart holds at most one line per composite key (product_id, size
\* name or none), and at most one line per key string.
C4_OneLinePerKey ==
    \A i, j \in DOMAIN cartItems :
        i # j => /\ <<cartItems[i].product_id, cartItems[i].size>> #
                      <<cartItems[j].product_id, cartItems[j].size>>
                 /\ cartItems[i].key # cartItems[j].key

\* C4 witness: a cart of three lines, one of which took two adds
C4_Witness ==
    /\ Len(cartItems) = 3
    /\ \E i \in DOMAIN cartItems : cartItems[i].quantity > 2

\* C5: every line of every reachable cart has a quantity >= 1.
C5_QuantityAtLeastOne ==
    \A i \in DOMAIN cartItems : cartItems[i].quantity >= 1

\* the price the catalog now lists for what a line or an order line refers to
ListedPrice(item) ==
    IF item.size = Null
    THEN products[item.product_id].price
    ELSE (CHOOSE z \in products[item.product_id].sizes : z.name = item.size).price

\* C6: a price snapshot is fixed when its line is created.  In every step, a
\* line appended to the cart carries the price listed at that moment for its
\* size if it has one, else for its product; a line that stays in the cart
\* keeps its price; a request on its way keeps its lines; and the order
\* request built from the cart carries the prices stored in the lines.
C6_PriceSnapshot ==
    [][ /\ \A j \in DOMAIN cartItems' :
              IF HasKey(cartItems, cartItems'[j].key)
              THEN cartItems'[j].price = LineOf(cartItems, cartItems'[j].key).price
              ELSE cartItems'[j].price = ListedPrice(cartItems'[j])
        /\ (postOrder.stage # "none" /\ postOrder'.stage # "none")
              => postOrder'.items = postOrder.items
        /\ (postOrder.stage = "none" /\ postOrder'.stage # "none")
              => /\ Len(postOrder'.items) = Len(cartItems)
                 /\ \A i \in DOMAIN cartItems :
                       postOrder'.items[i].price = cartItems[i].price ]_vars

\* C6 witness: the store has recorded an order whose request carries, from
\* its cart line, a price the catalog no longer lists
C6_Witness ==
    /\ postOrder.stage = "recorded"
    /\ \E i \in DOMAIN postOrder.items :
          /\ postOrder.items[i].price # ListedPrice(postOrder.items[i])
          /\ i \in DOMAIN cartItems
          /\ cartItems[i].price = postOrder.items[i].price

\* C7: the order handleCheckout submits has one line per cart line, in cart
\* order, each with the product_id, size, quantity and price of its cart line
\* at the moment of submission.
C7_OrderCopiesCart ==
    [][ (~isCheckingOut /\ isCheckingOut') =>
            /\ postOrder'.stage = "sent"
            /\ Len(postOrder'.items) = Len(cartItems)
            /\ \A i \in DOMAIN cartItems :
                  /\ postOrder'.items[i].product_id = cartItems[i].product_id
                  /\ postOrder'.items[i].size = cartItems[i].size
                  /\ postOrder'.items[i].quantity = cartItems[i].quantity
                  /\ postOrder'.items[i].price = cartItems[i].price ]_vars

\* C7 witness: a request of two lines just submitted from the cart, one of
\* them at a price the catalog no longer lists
C7_Witness ==
    /\ postOrder.stage = "sent"
    /\ Len(postOrder.items) = 2
    /\ postOrder.items = OrderItems(cartItems)
    /\ postOrder.items[1].product_id # postOrder.items[2].product_id
    /\ \E i \in DOMAIN postOrder.items :
          postOrder.items[i].price # ListedPrice(postOrder.items[i])

\* the transitions section 4.4 of the specification allows
LegalEdge(from, to) ==
    \/ <<from, to>> \in { <<"pending", "confirmed">>, <<"confirmed", "preparing">>,
                          <<"preparing", "ready">>, <<"ready", "delivered">> }
    \/ from \in {"pending", "confirmed", "preparing", "ready"} /\ to = "cancelled"

Terminal == {"delivered", "cancelled"}

\* C8: an order's status changes along a legal edge only; any other request
\* leaves the order as it is.
C8_OnlyLegalEdges ==
    [][ \A i \in DOMAIN orders :
           \/ orders'[i].status = orders[i].status
           \/ LegalEdge(orders[i].status, orders'[i].status) ]_vars

\* C9: once delivered or cancelled, an order's status never changes again.
C9_TerminalIsFinal ==
    [][ \A i \in DOMAIN orders :
           orders[i].status \in Terminal => orders'[i].status = orders[i].status ]_vars

\* C10: a status request made on an order read as pending, reaching the store
\* after another administrator's request has changed the status, does not
\* overwrite the status the first one wrote.
C10_SecondWriterRejected ==
    [][ \A a \in Admins :
           ( /\ putStatus[a].stage = "sent"
             /\ putStatus'[a].stage = "applied"
             /\ adminOrders[a][putStatus[a].order] = "pending"
             /\ orders[putStatus[a].order].status # "pending" )
           => orders' = orders ]_vars
(***************************************************************************)
(* C11  For every cart of lines with quantity >= 1, with S the sum of      *)
(* unit price x quantity: the subtotal of the order summary is S, the tax  *)
(* is 0.08 x S and the total is S + 0.08 x S = 1.08 x S, each exactly the  *)
(* decimal value (44.85, 3.588 and 48.438 for 16.95 x 2 and 10.95 x 1),    *)
(* with nothing else added.  The decimal value is taken in the most        *)
(* favourable way: as the number its numeral denotes.                      *)
(***************************************************************************)
\* the sum of unit price x quantity, in cents
RECURSIVE SubtotalCents(_)
SubtotalCents(cart) ==
    IF cart = <<>> THEN 0
    ELSE Head(cart).price * Head(cart).quantity + SubtotalCents(Tail(cart))

C11_ExactTotals ==
    (\A i \in DOMAIN cartItems : cartItems[i].quantity >= 1) =>
        /\ CartTotal(cartItems)    = Decimal(SubtotalCents(cartItems), 2)
        /\ TaxAmount(cartItems)    = Decimal(8 * SubtotalCents(cartItems), 4)
        /\ TotalWithTax(cartItems) = Decimal(108 * SubtotalCents(cartItems), 4)

\* the lines of a cart other than the one with the given key, in their order
Others(cart, key) == SelectSeq(cart, LAMBDA line : line.key # key)

\* C12: on any reachable cart, updateQuantity(key, n) with n <= 0 (0, -1,
\* -5) leaves no line with that key and all other lines as they were, which
\* is the cart removeItem(key) gives; applied again it changes nothing.
C12_NonPositiveRemoves ==
    \A k \in AllKeys, n \in {0 - 5, 0 - 1, 0} :
        LET after == SetQuantity(cartItems, k, n)
        IN  /\ ~HasKey(after, k)
            /\ after = Others(cartItems, k)
            /\ after = RemoveItem(cartItems, k)
            /\ SetQuantity(after, k, n) = after

\* C12 witness: the cart page shows two lines and its minus button on a line
\* of quantity 1 (updateQuantity(key, 0)) would take that line away
C12_Witness ==
    /\ Len(cartItems) = 2
    /\ \E i \in DOMAIN cartItems :
          /\ cartItems[i].quantity = 1
          /\ Len(SetQuantity(cartItems, cartItems[i].key, cartItems[i].quantity - 1)) = 1

\* C13: on any reachable cart, updateQuantity(key, n) with n > 0 gives a cart
\* of the same lines in the same order, in which the line with that key has
\* quantity n and is otherwise as before (price included) and every other
\* line is as before; without a line of that key the cart is as before.
C13_PositiveSetsQuantity ==
    \A k \in AllKeys, n \in 1..MaxQty :
        LET after == SetQuantity(cartItems, k, n)
        IN  /\ Len(after) = Len(cartItems)
            /\ \A i \in DOMAIN cartItems :
                  IF cartItems[i].key = k
                  THEN /\ after[i].quantity = n
                       /\ after[i].price = cartItems[i].price
                       /\ [after[i] EXCEPT !.quantity = 0] =
                              [cartItems[i] EXCEPT !.quantity = 0]
                  ELSE after[i] = cartItems[i]
            /\ ~HasKey(cartItems, k) => after = cartItems

\* C13 witness: a cart with a line of quantity 2 whose listed price has since
\* changed, another line, and a key that has no line
C13_Witness ==
    /\ Len(cartItems) = 2
    /\ \E i \in DOMAIN cartItems :
          /\ cartItems[i].quantity = 2
          /\ cartItems[i].price # PriceOf(products[cartItems[i].product_id], NoSize)
          /\ cartItems[i].size = Null
    /\ \E k \in AllKeys : ~HasKey(cartItems, k)

\* C14: on any reachable cart, removeItem(key) gives the lines whose key is
\* not `key`, in their order: one line fewer when the key has a line (the
\* cart holds one line per key), the same cart when it has none; applied
\* twice it gives what it gives applied once.
C14_RemoveExactlyTheLine ==
    \A k \in AllKeys :
        LET after == RemoveItem(cartItems, k)
        IN  /\ after = Others(cartItems, k)
            /\ HasKey(cartItems, k) => Len(after) = Len(cartItems) - 1
            /\ ~HasKey(cartItems, k) => after = cartItems
            /\ RemoveItem(after, k) = after

\* C14 witness: a cart of three lines, the one to remove in the middle
C14_Witness ==
    /\ Len(cartItems) = 3
    /\ RemoveItem(cartItems, cartItems[2].key) = <<cartItems[1], cartItems[3]>>

\* the sum of the quantities of the lines, line by line from the last
SumOfQuantities(cart) ==
    LET RECURSIVE UpTo(_)
        UpTo(i) == IF i = 0 THEN 0 ELSE cart[i].quantity + UpTo(i - 1)
    IN  UpTo(Len(cart))

\* a number in cents, rounded to the nearest cent (for amounts below 2^30
\* cents)
NearestCent(x) ==
    IF x.m = <<>> THEN 0
    ELSE LET p == MulSmall(x.m, 100, 0)
             h == IF x.e < 0 THEN ShiftRight(p, (0 - x.e) - 1).q
                  ELSE Trim(ShiftLeft(p, x.e + 1))
             v == IF h = <<>> THEN 0
                  ELSE h[1] + (IF Len(h) > 1 THEN Base * h[2] ELSE 0)
         IN  IF x.neg THEN 0 - ((v + 1) \div 2) ELSE (v + 1) \div 2

C16_NoPartialSuccess ==
    [][ CheckoutEnds =>
          \/ /\ checkoutToast' = "placed"
             /\ postOrder.stage = "recorded"
             /\ orders' # <<>>
             /\ orders'[Len(orders')].status = "pending"
          \/ /\ checkoutToast' = "failed"
             /\ postOrder.stage = "sent"
             /\ orders' = orders ]_vars

C18_NoRequestWithoutPhone ==
    postOrder.stage # "none" => postOrder.phone # ""

\* C18 witness: after an order was placed the phone input is empty again; the
\* user has a cart and the form on screen, no request is on its way, and the
\* form cannot be submitted
C18_Witness ==
    /\ FormShown
    /\ phone = ""
    /\ checkoutToast = "placed"
    /\ ~isCheckingOut
    /\ postOrder.stage = "none"
    /\ ~ENABLED HandleCheckout

\* C19: handleCheckout called while user is null sends no request and
\* changes neither the cart nor isCheckingOut: no step from a state without a
\* user puts a request on its way, and the step that shows the login toast
\* leaves cart, flag and request as they were.
C19_NoUserNoCheckout ==
    [][ user = Null =>
          /\ postOrder'.stage = "sent" => postOrder' = postOrder
          /\ (checkoutToast' = "login" /\ checkoutToast # "login") =>
                /\ cartItems' = cartItems
                /\ isCheckingOut' = isCheckingOut
                /\ postOrder' = postOrder ]_vars

\* C19 witness: handleCheckout has run without a user (the login toast is
\* shown) in a session that holds a token and a cart; nothing is on its way
C19_Witness ==
    /\ checkoutToast = "login"
    /\ user = Null
    /\ token # Null
    /\ cartItems # <<>>
    /\ ~isCheckingOut
    /\ postOrder = NoRequest

\* C20: a status-update call of a caller without administrative privilege
\* is rejected by updateOrderStatus itself: no status request of such a
\* caller is ever on its way, and so none changes the status of an order.
C20_UnprivilegedCallRejected ==
    \A a \in Callers : ~IsAdmin(a) => putStatus[a].stage = "none"

\* the step in which the status request of page a ends in its catch branch:
\* the request is over and the page has not fetched the orders again, where
\* the fetch of the success branch would have changed what the page lists
StatusRequestFails(a) ==
    /\ putStatus[a].stage # "none"
    /\ putStatus'[a].stage = "none"
    /\ adminOrders'[a] = adminOrders[a]
    /\ adminOrders[a] # StatusList

\* C21: a status request that ends in a failure (transport error, timeout)
\* leaves the status of the order as it was: the store has not applied the
\* request whose failure the page reports.
C21_FailedUpdateLeavesStatus ==
    [][ \A a \in Admins :
           StatusRequestFails(a) => putStatus[a].stage # "applied" ]_vars

\* C22: the cart is torn down on logout: the step in which the user logs out
\* (user goes from a user to null) leaves the cart empty, so that no line of
\* the session that ended is there for the next user of the client.
C22_CartTornDownOnLogout ==
    [][ (user # Null /\ user' = Null) => cartItems' = <<>> ]_vars

(***************************************************************************)
(* C23  Order placement is complete in both clients: in each there is a    *)
(* run in which a user logs in, has a non-empty cart, and submits an       *)
(* order-creation request.  For the mobile client: a logged-in customer    *)
(* with lines in the cart, who goes on using the app, has an order request *)
(* sent, unless the customer logs out or empties the cart first.           *)
(***************************************************************************)
OrderSubmitted == postOrder.stage = "sent"

\* C23: in the mobile client a logged-in user with a non-empty cart gets to
\* submit an order-creation request
C23_MobileOrderPlacement ==
    (user # Null /\ cartItems # <<>>)
        ~> (OrderSubmitted \/ user = Null \/ cartItems = <<>>)


(***************************************************************************)
(* C24  Cart insertion order is preserved: addItem on an existing key and  *)
(* updateQuantity with a positive quantity never change the position of    *)
(* any line, addItem on a new key appends the new line at the end, and     *)
(* removing a line keeps the relative order of the remaining lines.        *)
(***************************************************************************)
KeySeq(cart) == [i \in DOMAIN cart |-> cart[i].key]

\* the keys of a cart without the key removed, in the order they had
RECURSIVE KeysWithout(_, _)
KeysWithout(keys, key) ==
    IF keys = <<>> THEN <<>>
    ELSE IF keys[Len(keys)] = key
         THEN KeysWithout(SubSeq(keys, 1, Len(keys) - 1), key)
         ELSE Append(KeysWithout(SubSeq(keys, 1, Len(keys) - 1), key), keys[Len(keys)])

\* C24: on every cart the engine can hold, an addItem of an existing key and
\* an updateQuantity to a positive quantity leave every line at its position,
\* an addItem of a new key leaves the lines in place and puts the new one
\* last, and a removal leaves the other lines in the order they had
C24_InsertionOrderKept ==
    /\ \A pr \in AnyProduct, s \in AnySize, q \in 1..2 :
          LET after == AddItem(cartItems, pr, s, q)
          IN  IF HasKey(cartItems, ItemKey(pr, s))
              THEN KeySeq(after) = KeySeq(cartItems)
              ELSE KeySeq(after) = Append(KeySeq(cartItems), ItemKey(pr, s))
    /\ \A k \in AllKeys, q \in 1..2 :
          KeySeq(SetQuantity(cartItems, k, q)) = KeySeq(cartItems)
    /\ \A k \in AllKeys :
          /\ KeySeq(RemoveItem(cartItems, k)) = KeysWithout(KeySeq(cartItems), k)
          /\ KeySeq(SetQuantity(cartItems, k, 0)) = KeysWithout(KeySeq(cartItems), k)

\* a cart of three lines, reached by additions and a removal
C24_Witness ==
    /\ Len(cartItems) = 3
    /\ KeySeq(cartItems) = <<"p2-default", "p1-L", "p1-default">>


(***************************************************************************)
(* C25  The web and the mobile cart engines are observationally            *)
(* equivalent: starting from an empty cart, any same sequence of addItem,  *)
(* updateQuantity, removeItem and clear calls yields the same ordered list *)
(* of lines and the same count and total in both.  Both start from the     *)
(* same empty list and clear to it; the step of the induction is checked   *)
(* on every cart the mobile engine reaches: each call of the mobile engine *)
(* returns what the same call of the web engine returns.                   *)
(***************************************************************************)
\* C25: on every cart reached from the empty one, the mobile addToCart,
\* updateQuantity and removeFromCart return the same ordered list of lines as
\* the web ones for the same arguments, and the mobile cartCount and cartTotal
\* are the web ones
C25_EnginesAgree ==
    /\ \A pr \in AnyProduct, s \in AnySize, q \in (0 - 1)..2 :
          MobileAddItem(cartItems, pr, s, q) = AddItem(cartItems, pr, s, q)
    /\ \A k \in AllKeys, q \in (0 - 1)..2 :
          MobileSetQuantity(cartItems, k, q) = SetQuantity(cartItems, k, q)
    /\ \A k \in AllKeys :
          MobileRemoveItem(cartItems, k) = RemoveItem(cartItems, k)
    /\ MobileCartCount(cartItems) = CartCount(cartItems)
    /\ MobileCartTotal(cartItems) = CartTotal(cartItems)

\* a cart of several lines, one of them merged from two additions, on which
\* a further addition merges in one engine as in the other
C25_Witness ==
    /\ Len(cartItems) >= 2
    /\ cartItems[1].quantity >= 2
    /\ \E pr \in AnyProduct, s \in AnySize :
          /\ HasKey(cartItems, ItemKey(pr, s))
          /\ MobileAddItem(cartItems, pr, s, 1) # cartItems


(***************************************************************************)
(* C26  If the cart is modified (addItem, updateQuantity or removeItem)    *)
(* while a checkout request is in flight, then when that request succeeds  *)
(* only the lines and quantities that were included in the submitted order *)
(* are destroyed: no line or quantity that was not part of the order is    *)
(* lost.                                                                   *)
(***************************************************************************)
\* the quantity of a cart line that the submitted order holds
OrderedQuantity(items, line) ==
    IF \E j \in DOMAIN items :
          items[j].product_id = line.product_id /\ items[j].size = line.size
    THEN (CHOOSE it \in { items[j] : j \in DOMAIN items } :
             it.product_id = line.product_id /\ it.size = line.size).quantity
    ELSE 0

\* C26: in the step in which a checkout succeeds, every line of the cart
\* whose quantity exceeds what the submitted order holds of it is still in
\* the cart afterwards, with at least the quantity that was not ordered
C26_UnorderedLinesSurvive ==
    [][ (CheckoutEnds /\ checkoutToast' = "placed") =>
           \A i \in DOMAIN cartItems :
              cartItems[i].quantity > OrderedQuantity(postOrder.items, cartItems[i]) =>
                 \E j \in DOMAIN cartItems' :
                    /\ cartItems'[j].key = cartItems[i].key
                    /\ cartItems'[j].quantity >=
                          cartItems[i].quantity
                            - OrderedQuantity(postOrder.items, cartItems[i]) ]_vars


(***************************************************************************)
(* C27  Two addItem calls with different (product_id, size) pairs always   *)
(* produce two separate lines: the line key built from product id and size *)
(* name is injective, so no two distinct pairs (a size literally named     *)
(* 'default' versus no size, for one) are ever merged into one line.       *)
(***************************************************************************)
\* the composite key of a call: the product id and the size name, or none
PairOf(product, size) == <<product.id, IF size.none THEN Null ELSE size.name>>

\* the sizes addItem is called with for a product: none, or one of its own
SizeChoices(product) == {NoSize} \cup product.sizes

\* C27: on every cart, two addItem calls whose (product_id, size) pairs
\* differ leave two separate lines, one under the key of each call
C27_DistinctPairsSeparateLines ==
    \A pr1 \in AnyProduct, pr2 \in AnyProduct :
       \A s1 \in SizeChoices(pr1), s2 \in SizeChoices(pr2) :
          PairOf(pr1, s1) # PairOf(pr2, s2) =>
             LET after == AddItem(AddItem(cartItems, pr1, s1, 1), pr2, s2, 1)
             IN  \E i \in DOMAIN after, j \in DOMAIN after :
                    /\ i # j
                    /\ after[i].key = ItemKey(pr1, s1)
                    /\ after[j].key = ItemKey(pr2, s2)


(***************************************************************************)
(* C28  The quantity controls do not lose updates: k increment (or         *)
(* decrement) presses on a line whose quantity is q leave the quantity at  *)
(* q+k (or q-k, removing the line at <= 0), even when several presses are  *)
(* handled before the cart view re-reads the quantity.                     *)
(***************************************************************************)
\* k presses of one button of line i (d = 1 for plus, -1 for minus), all of
\* them handled by the view rendered from the cart `shown`: each is the
\* handler of that view, updateQuantity(item.key, item.quantity + d)
RECURSIVE PressesOnOneView(_, _, _, _, _)
PressesOnOneView(cart, shown, i, d, k) ==
    IF k = 0 THEN cart
    ELSE PressesOnOneView(SetQuantity(cart, shown[i].key, shown[i].quantity + d),
                          shown, i, d, k - 1)

\* the quantity a cart holds under a key, 0 when it holds no such line
QuantityOf(cart, key) ==
    IF HasKey(cart, key)
    THEN cart[CHOOSE i \in DOMAIN cart : cart[i].key = key].quantity
    ELSE 0

C29_FlagEventuallyCleared == isCheckingOut ~> ~isCheckingOut

\* a checkout has failed after the store had recorded the order, and the
\* flag is clear again with the form still on screen
C29_Witness ==
    /\ ~isCheckingOut
    /\ checkoutToast = "failed"
    /\ orders # <<>>
    /\ FormShown
    /\ ~SubmitDisabled


(***************************************************************************)
(* C30  In the web client the authenticated user and the token are always  *)
(* set together: in every reachable state, including after the post-login  *)
(* redirect and after a page load that restores the token from local       *)
(* storage, user is non-null if and only if token is non-null.             *)
(***************************************************************************)
\* C30: in every state of the web client the user is set exactly when the
\* token is
C30_UserAndTokenTogether == (user # Null) <=> (token # Null)


====
